---- MODULE Spec2Model ----
(***************************************************************************)
(* A model of the task manager's TaskRepository and TaskController.        *)
(*                                                                         *)
(* JavaScript values are modelled as follows.  An object literal passed    *)
(* as an argument (taskData, updates, filters) is a function from the keys *)
(* it carries to their values: `x.k !== undefined` is `k \in DOMAIN x`.    *)
(* null and undefined are the strings Null and Undefined, so that they     *)
(* compare with the other string values.  A call that may throw yields a   *)
(* record with a `threw` flag and the error message.                       *)
(***************************************************************************)
EXTENDS Integers, Sequences, FiniteSets, TLC

\* How many tasks are created in one run (task ids are never reused).
MaxTasks == 1

\* How many tasks the index holds when the repository's queries are checked.
MaxIndex == 2

\* How many users are created when the UserRepository is checked.
MaxUsers == 3

\* How many records the Storage Port holds when a repository is constructed
\* over it.
MaxStored == 3

\* The day the run happens on (due dates are whole days).
Today == 2

Null == "<null>"
Undefined == "<undefined>"
NullDate == 0 - 1

\* The users the UserRepository holds, and an id that names no user.
UserIds == {"u1", "u2", "u3"}
GhostId == "ghost"

\* A task id as the entity layer generates it.
TaskIdOf(n) == n

VARIABLES
    users,        \* UserRepository's index: user id -> user
    currentUser,  \* TaskController.currentUser: a user id, or Null
    tasks,        \* TaskRepository.tasks: the Map, as the sequence of its values
    storage,      \* the Storage Port's value under key 'tasks'
    nextId,       \* the number of the next task the entity layer creates
    now,          \* the clock, in days
    last          \* the last call: its name, arguments and what it returned

vars == <<users, currentUser, tasks, storage, nextId, now, last>>

(***************************************************************************)
(* JavaScript helpers                                                      *)
(***************************************************************************)
\* x.k
Field(x, k) == IF k \in DOMAIN x THEN x[k] ELSE Undefined

\* the truthiness of a string, null or undefined
Truthy(v) == v \notin {"", Null, Undefined}

\* a || b
OrElse(a, b) == IF Truthy(a) THEN a ELSE b

\* String.prototype.trim, on the titles and queries of the model
BlankStrings == {"", "   "}
Trim(s) == IF s \in BlankStrings THEN "" ELSE s

\* {...a, k: v}
Spread(a, k, v) == [x \in DOMAIN a \cup {k} |-> IF x = k THEN v ELSE a[x]]

\* Array.prototype.filter
Filter(s, Keep(_)) == SelectSeq(s, Keep)

\* Array.prototype.includes / some
Includes(s, v) == \E i \in 1..Len(s) : s[i] = v

\* the argument null, where an object is expected
NullObj == [k \in {Null} |-> Null]

\* {}
EmptyObj == [k \in {} |-> Null]

TypeErrorNullId == "Cannot read properties of null (reading 'id')"
TypeErrorNullArg == "Cannot read properties of null"

(***************************************************************************)
(* Entity layer: EnhancedTask.  Its file is not among the sources; it is   *)
(* modelled from the data model of the specification: a value object whose *)
(* named mutation operations set one field each, and validate priority and *)
(* status against their fixed value lists.                                 *)
(***************************************************************************)
Statuses == <<"pending", "in-progress", "blocked", "completed", "cancelled">>
Priorities == <<"low", "medium", "high", "urgent">>
Categories == <<"work", "personal", "study", "health", "finance", "other">>

Range(s) == {s[i] : i \in 1..Len(s)}

Done(t) == [threw |-> FALSE, error |-> Undefined, task |-> t]
Raise(t, msg) == [threw |-> TRUE, error |-> msg, task |-> t]

InvalidPriority == "Invalid priority"
InvalidStatus == "Invalid status"

\* new EnhancedTask(title, description, ownerId, options)
EnhancedTask(title, description, ownerId, options) ==
    LET priority == OrElse(Field(options, "priority"), "medium")
        status == OrElse(Field(options, "status"), "pending")
        t == [id |-> TaskIdOf(nextId),
              title |-> title,
              description |-> description,
              ownerId |-> ownerId,
              assigneeId |-> OrElse(Field(options, "assigneeId"), ownerId),
              category |-> OrElse(Field(options, "category"), "personal"),
              priority |-> priority,
              status |-> status,
              dueDate |-> IF "dueDate" \in DOMAIN options
                          THEN options["dueDate"] ELSE NullDate,
              estimatedHours |-> IF "estimatedHours" \in DOMAIN options
                                 THEN options["estimatedHours"] ELSE 0,
              timeSpent |-> 0,
              tags |-> IF "tags" \in DOMAIN options THEN options["tags"] ELSE << >>,
              notes |-> << >>,
              createdAt |-> now]
    IN  IF priority \notin Range(Priorities) THEN Raise(t, InvalidPriority)
        ELSE IF status \notin Range(Statuses) THEN Raise(t, InvalidStatus)
        ELSE Done(t)

updateTitle(t, v) == Done([t EXCEPT !.title = v])
updateDescription(t, v) == Done([t EXCEPT !.description = v])
updateCategory(t, v) == Done([t EXCEPT !.category = v])
updatePriority(t, v) ==
    IF v \in Range(Priorities) THEN Done([t EXCEPT !.priority = v])
    ELSE Raise(t, InvalidPriority)
updateStatus(t, v) ==
    IF v \in Range(Statuses) THEN Done([t EXCEPT !.status = v])
    ELSE Raise(t, InvalidStatus)
setDueDate(t, v) == Done([t EXCEPT !.dueDate = v])
assignTo(t, v) == Done([t EXCEPT !.assigneeId = v])
setEstimatedHours(t, v) == Done([t EXCEPT !.estimatedHours = v])
addTimeSpent(t, v) == Done([t EXCEPT !.timeSpent = @ + v])
addTag(t, v) ==
    Done(IF Includes(t.tags, v) THEN t ELSE [t EXCEPT !.tags = Append(@, v)])
removeTag(t, v) == Done([t EXCEPT !.tags = SelectSeq(@, LAMBDA x : x # v)])
addNote(t, v) == Done([t EXCEPT !.notes = Append(@, v)])

\* the derived fields
daysUntilDue(t) == IF t.dueDate = NullDate THEN NullDate ELSE t.dueDate - now
HasDaysUntilDue(t) == t.dueDate # NullDate
isOverdue(t) ==
    /\ t.dueDate # NullDate
    /\ t.dueDate < now
    /\ t.status \notin {"completed", "cancelled"}

\* A Date is serialized as its ISO string, null as null, and parsed back by
\* the constructor.
Dates == 0..(Today + 7)
toISOString(d) == IF d = NullDate THEN Null ELSE ToString(d)
parseDate(str) ==
    IF str = Null THEN NullDate ELSE CHOOSE d \in Dates : ToString(d) = str

\* task.toJSON(): the flat field set, the derived fields left out
toJSON(t) ==
    [id |-> t.id, title |-> t.title, description |-> t.description,
     ownerId |-> t.ownerId, assigneeId |-> t.assigneeId, category |-> t.category,
     priority |-> t.priority, status |-> t.status,
     dueDate |-> toISOString(t.dueDate),
     estimatedHours |-> t.estimatedHours, timeSpent |-> t.timeSpent,
     tags |-> t.tags, notes |-> t.notes, createdAt |-> toISOString(t.createdAt)]

\* EnhancedTask.fromJSON(data): the task rebuilt from its flat field set, by
\* the constructor, whose validation it therefore repeats
fromJSON(data) ==
    LET t == [id |-> data.id, title |-> data.title, description |-> data.description,
              ownerId |-> data.ownerId, assigneeId |-> data.assigneeId,
              category |-> data.category, priority |-> data.priority,
              status |-> data.status, dueDate |-> parseDate(data.dueDate),
              estimatedHours |-> data.estimatedHours, timeSpent |-> data.timeSpent,
              tags |-> data.tags, notes |-> data.notes,
              createdAt |-> parseDate(data.createdAt)]
    IN  IF data.priority \notin Range(Priorities) THEN Raise(t, InvalidPriority)
        ELSE IF data.status \notin Range(Statuses) THEN Raise(t, InvalidStatus)
        ELSE Done(t)

(***************************************************************************)
(* UserRepository: only its findById is used by the controller.  Its file  *)
(* is not among the sources; findById is modelled from the specification   *)
(* (the user when the id is in the index, null otherwise).  A user stands  *)
(* for itself by its id.                                                   *)
(***************************************************************************)
userFindById(id) == IF id \in DOMAIN users THEN id ELSE Null

(***************************************************************************)
(* TaskRepository                                                          *)
(***************************************************************************)
\* _saveTasksToStorage: the whole index, re-serialized
saveTasksToStorage(ts) == [i \in 1..Len(ts) |-> toJSON(ts[i])]

\* this.tasks.has(id)
Has(ts, id) == \E i \in 1..Len(ts) : ts[i].id = id
IndexOf(ts, id) == CHOOSE i \in 1..Len(ts) : ts[i].id = id

\* The task of the index with this id (there is one).
TaskOf(ts, id) == ts[IndexOf(ts, id)]

\* this.tasks.set(task.id, task): a Map keeps the place of a key it has
MapSet(ts, t) ==
    IF Has(ts, t.id) THEN [ts EXCEPT ![IndexOf(ts, t.id)] = t] ELSE Append(ts, t)

\* the forEach of _loadTasksFromStorage: it ends at the first record that
\* fromJSON refuses, the tasks before it already in the index
RECURSIVE LoadFrom(_, _)
LoadFrom(tasksData, index) ==
    IF tasksData = << >> THEN index
    ELSE LET c == fromJSON(Head(tasksData))
         IN  IF c.threw THEN index
             ELSE LoadFrom(Tail(tasksData), MapSet(index, c.task))

\* _loadTasksFromStorage, into the empty index of a new repository
loadTasksFromStorage(tasksData) == LoadFrom(tasksData, << >>)

\* findById: the task, as a one-element sequence, or null, as the empty one
findById(id) == IF Has(tasks, id) THEN <<tasks[IndexOf(tasks, id)]>> ELSE << >>

findAll == tasks
findByOwner(ownerId) == Filter(findAll, LAMBDA t : t.ownerId = ownerId)
findByAssignee(assigneeId) == Filter(findAll, LAMBDA t : t.assigneeId = assigneeId)
findByCategory(category) == Filter(findAll, LAMBDA t : t.category = category)
findByStatus(status) == Filter(findAll, LAMBDA t : t.status = status)
findByPriority(priority) == Filter(findAll, LAMBDA t : t.priority = priority)
findOverdue == Filter(findAll, LAMBDA t : isOverdue(t))
findDueSoon(days) ==
    Filter(findAll, LAMBDA t :
        HasDaysUntilDue(t) /\ daysUntilDue(t) <= days /\ daysUntilDue(t) >= 0)
findByTag(tag) == Filter(findAll, LAMBDA t : Includes(t.tags, tag))

\* What a repository call leaves behind: whether it threw, what it returned
\* (a task as a one-element sequence, null as the empty one), the index and
\* the Storage Port.
RepoResult(threw, error, ret, ts, st, nid) ==
    [threw |-> threw, error |-> error, ret |-> ret,
     tasks |-> ts, storage |-> st, nextId |-> nid]

\* create(taskData)
create(taskData) ==
    LET c == EnhancedTask(Field(taskData, "title"),
                          OrElse(Field(taskData, "description"), ""),
                          Field(taskData, "ownerId"),
                          taskData)
        ts == Append(tasks, c.task)
    IN  IF c.threw
        THEN RepoResult(TRUE, c.error, << >>, tasks, storage, nextId)
        ELSE RepoResult(FALSE, Undefined, <<c.task>>, ts,
                        saveTasksToStorage(ts), nextId + 1)

\* One line of update's body: the mutation for `key`, when updates carries
\* it and no earlier mutation threw.
Mutate(o, updates, key, Op(_, _)) ==
    IF o.threw \/ key \notin DOMAIN updates THEN o ELSE Op(o.task, updates[key])

\* An update that copies every key of updates it is given onto the task.
ApplyUpdates_AnyKey(t, updates) ==
    Done([k \in DOMAIN t |->
             IF k \in DOMAIN updates THEN updates[k] ELSE t[k]])

\* An update that takes the keys in alphabetical order.
ApplyUpdates_Alphabetical(t, updates) ==
    LET m1 == Mutate(Done(t), updates, "addNote", addNote)
        m2 == Mutate(m1, updates, "addTag", addTag)
        m3 == Mutate(m2, updates, "addTimeSpent", addTimeSpent)
        m4 == Mutate(m3, updates, "assigneeId", assignTo)
        m5 == Mutate(m4, updates, "category", updateCategory)
        m6 == Mutate(m5, updates, "description", updateDescription)
        m7 == Mutate(m6, updates, "dueDate", setDueDate)
        m8 == Mutate(m7, updates, "estimatedHours", setEstimatedHours)
        m9 == Mutate(m8, updates, "priority", updatePriority)
        m10 == Mutate(m9, updates, "removeTag", removeTag)
        m11 == Mutate(m10, updates, "status", updateStatus)
    IN  Mutate(m11, updates, "title", updateTitle)

\* The mutations of update, in the order of its body.
ApplyUpdates(t, updates) ==
    LET m1 == Mutate(Done(t), updates, "title", updateTitle)
        m2 == Mutate(m1, updates, "description", updateDescription)
        m3 == Mutate(m2, updates, "category", updateCategory)
        m4 == Mutate(m3, updates, "priority", updatePriority)
        m5 == Mutate(m4, updates, "status", updateStatus)
        m6 == Mutate(m5, updates, "dueDate", setDueDate)
        m7 == Mutate(m6, updates, "assigneeId", assignTo)
        m8 == Mutate(m7, updates, "estimatedHours", setEstimatedHours)
        m9 == Mutate(m8, updates, "addTimeSpent", addTimeSpent)
        m10 == Mutate(m9, updates, "addTag", addTag)
        m11 == Mutate(m10, updates, "removeTag", removeTag)
    IN  Mutate(m11, updates, "addNote", addNote)

\* update(id, updates): the task object is mutated in place, so what was
\* applied before a mutation threw stays in the index, unsaved.
update(id, updates) ==
    IF ~Has(tasks, id)
    THEN RepoResult(FALSE, Undefined, << >>, tasks, storage, nextId)
    ELSE IF updates = NullObj
    THEN RepoResult(TRUE, TypeErrorNullArg, << >>, tasks, storage, nextId)
    ELSE LET i == IndexOf(tasks, id)
             m == ApplyUpdates(tasks[i], updates)
             ts == [tasks EXCEPT ![i] = m.task]
         IN  IF m.threw
             THEN RepoResult(TRUE, m.error, << >>, ts, storage, nextId)
             ELSE RepoResult(FALSE, Undefined, <<m.task>>, ts,
                             saveTasksToStorage(ts), nextId)

\* A delete that forgets to save.
delete_NoSave(id) ==
    LET ts == Filter(tasks, LAMBDA t : t.id # id)
    IN  IF Has(tasks, id)
        THEN RepoResult(FALSE, Undefined, <<TRUE>>, ts, storage, nextId)
        ELSE RepoResult(FALSE, Undefined, <<FALSE>>, tasks, storage, nextId)

\* A delete that does not look whether the id is there.
delete_Unconditional(id) ==
    LET ts == Filter(tasks, LAMBDA t : t.id # id)
    IN  RepoResult(FALSE, Undefined, <<TRUE>>, ts, saveTasksToStorage(ts), nextId)

\* delete(id): ret is <<TRUE>> or <<FALSE>>
delete(id) ==
    LET ts == Filter(tasks, LAMBDA t : t.id # id)
    IN  IF Has(tasks, id)
        THEN RepoResult(FALSE, Undefined, <<TRUE>>, ts,
                        saveTasksToStorage(ts), nextId)
        ELSE RepoResult(FALSE, Undefined, <<FALSE>>, tasks, storage, nextId)

\* String.prototype.toLowerCase, on the strings of the model
toLowerCase(s) ==
    CASE s = "Buy milk" -> "buy milk"
      [] s = "Pay rent" -> "pay rent"
      [] s = "MILK" -> "milk"
      [] OTHER -> s

\* String.prototype.includes, on the (lower-case) strings of the model
StrIncludes(hay, needle) ==
    \/ needle = ""
    \/ hay = needle
    \/ hay = "buy milk" /\ needle \in {"milk", "buy"}
    \/ hay = "pay rent" /\ needle \in {"rent", "pay"}

\* search(query)
search(query) ==
    LET searchTerm == toLowerCase(query)
    IN  Filter(findAll, LAMBDA t :
            \/ StrIncludes(toLowerCase(t.title), searchTerm)
            \/ StrIncludes(toLowerCase(t.description), searchTerm)
            \/ \E i \in 1..Len(t.tags) :
                   StrIncludes(toLowerCase(t.tags[i]), searchTerm))

\* a boolean option that is present and true
IsTrue(x, k) == k \in DOMAIN x /\ x[k] = TRUE

DueSoonDays == 3

\* A filter that stops after the ownerId option.
filter_OwnerOnly(filters) ==
    IF Truthy(Field(filters, "ownerId"))
    THEN Filter(findAll, LAMBDA t : t.ownerId = filters["ownerId"]) ELSE findAll

\* filter(filters)
filter(filters) ==
    LET r0 == findAll
        r1 == IF Truthy(Field(filters, "ownerId"))
              THEN Filter(r0, LAMBDA t : t.ownerId = filters["ownerId"]) ELSE r0
        r2 == IF Truthy(Field(filters, "assigneeId"))
              THEN Filter(r1, LAMBDA t : t.assigneeId = filters["assigneeId"]) ELSE r1
        r3 == IF Truthy(Field(filters, "category"))
              THEN Filter(r2, LAMBDA t : t.category = filters["category"]) ELSE r2
        r4 == IF Truthy(Field(filters, "status"))
              THEN Filter(r3, LAMBDA t : t.status = filters["status"]) ELSE r3
        r5 == IF Truthy(Field(filters, "priority"))
              THEN Filter(r4, LAMBDA t : t.priority = filters["priority"]) ELSE r4
        r6 == IF IsTrue(filters, "overdue")
              THEN Filter(r5, LAMBDA t : isOverdue(t)) ELSE r5
        r7 == IF IsTrue(filters, "dueSoon")
              THEN Filter(r6, LAMBDA t :
                       /\ HasDaysUntilDue(t)
                       /\ daysUntilDue(t) <= DueSoonDays
                       /\ daysUntilDue(t) >= 0)
              ELSE r6
    IN  IF "tags" \in DOMAIN filters /\ Len(filters["tags"]) > 0
        THEN Filter(r7, LAMBDA t :
                 \E i \in 1..Len(filters["tags"]) : Includes(t.tags, filters["tags"][i]))
        ELSE r7

\* The titles of the model in case-insensitive lexical order.
TitleOrder == <<"", "Buy milk", "Pay rent">>
PriorityRank(p) == CHOOSE i \in 1..Len(Priorities) : Priorities[i] = p
FarFuture == 99991231

\* the comparator's valueA / valueB
SortValue(t, sortBy) ==
    CASE sortBy = "title" ->
            CHOOSE i \in 1..Len(TitleOrder) : TitleOrder[i] = t.title
      [] sortBy = "priority" -> PriorityRank(t.priority)
      [] sortBy = "dueDate" -> IF t.dueDate = NullDate THEN FarFuture ELSE t.dueDate
      [] OTHER -> t.createdAt

\* A comparator that takes 'asc' for 'desc' and 'desc' for 'asc'.
Compare_Swapped(a, b, sortBy, order) ==
    IF order = "asc"
    THEN (IF SortValue(a, sortBy) < SortValue(b, sortBy) THEN 1 ELSE 0 - 1)
    ELSE (IF SortValue(a, sortBy) > SortValue(b, sortBy) THEN 1 ELSE 0 - 1)

\* the comparator: 1 or -1, never 0
Compare(a, b, sortBy, order) ==
    IF order = "asc"
    THEN (IF SortValue(a, sortBy) > SortValue(b, sortBy) THEN 1 ELSE 0 - 1)
    ELSE (IF SortValue(a, sortBy) < SortValue(b, sortBy) THEN 1 ELSE 0 - 1)

Orderings(n) == {f \in [1..n -> 1..n] : \A i, j \in 1..n : f[i] = f[j] => i = j}

InsertAt(s, p, x) == SubSeq(s, 1, p - 1) \o <<x>> \o SubSeq(s, p, Len(s))

\* Array.prototype.sort on a short array is an insertion sort.  The place of
\* the next element x in the sorted prefix is found by a scan from the right,
\* which passes the elements the comparator puts after x ...
RECURSIVE ScanPlace(_, _, _, _, _)
ScanPlace(sorted, j, x, sortBy, order) ==
    IF j >= 1 /\ Compare(sorted[j], x, sortBy, order) > 0
    THEN ScanPlace(sorted, j - 1, x, sortBy, order)
    ELSE j + 1

\* ... or by a binary search, which asks the comparator for x against the
\* middle of what is left.
RECURSIVE BinaryPlace(_, _, _, _, _, _)
BinaryPlace(sorted, left, right, x, sortBy, order) ==
    IF left >= right THEN left + 1
    ELSE LET mid == left + ((right - left) \div 2)
         IN  IF Compare(x, sorted[mid + 1], sortBy, order) < 0
             THEN BinaryPlace(sorted, left, mid, x, sortBy, order)
             ELSE BinaryPlace(sorted, mid + 1, right, x, sortBy, order)

RECURSIVE InsertionSort(_, _, _, _, _)
InsertionSort(sorted, rest, sortBy, order, binary) ==
    IF rest = << >> THEN sorted
    ELSE LET x == Head(rest)
             p == IF binary
                  THEN BinaryPlace(sorted, 0, Len(sorted), x, sortBy, order)
                  ELSE ScanPlace(sorted, Len(sorted), x, sortBy, order)
         IN  InsertionSort(InsertAt(sorted, p, x), Tail(rest), sortBy, order, binary)

\* sort(tasks, sortBy, order): the results Array.prototype.sort may give.
\* The comparator answers -1 both ways for two tasks of equal keys, so it is
\* not a consistent comparator and the order of such tasks depends on which
\* comparisons the engine makes: both insertion sorts are possible.
sort(ts, sortBy, order) ==
    {InsertionSort(<< >>, ts, sortBy, order, binary) : binary \in BOOLEAN}

Count(ts, P(_)) == Len(Filter(ts, P))

\* Statistics that count only the values some task has.
getStats_Sparse(userId) ==
    LET ts == IF Truthy(userId) THEN findByOwner(userId) ELSE findAll
    IN  [total |-> Len(ts),
         byStatus |-> [s \in {ts[i].status : i \in 1..Len(ts)} |->
                          Count(ts, LAMBDA t : t.status = s)],
         byPriority |-> [p \in {ts[i].priority : i \in 1..Len(ts)} |->
                            Count(ts, LAMBDA t : t.priority = p)],
         byCategory |-> [c \in {ts[i].category : i \in 1..Len(ts)} |->
                            Count(ts, LAMBDA t : t.category = c)],
         overdue |-> Count(ts, LAMBDA t : isOverdue(t)),
         dueSoon |-> Count(ts, LAMBDA t :
                         HasDaysUntilDue(t) /\ daysUntilDue(t) <= DueSoonDays),
         completed |-> Count(ts, LAMBDA t : t.status = "completed")]

\* getStats(userId)
getStats(userId) ==
    LET ts == IF Truthy(userId) THEN findByOwner(userId) ELSE findAll
    IN  [total |-> Len(ts),
         byStatus |-> [s \in Range(Statuses) |-> Count(ts, LAMBDA t : t.status = s)],
         byPriority |-> [p \in Range(Priorities) |-> Count(ts, LAMBDA t : t.priority = p)],
         byCategory |-> [c \in Range(Categories) |-> Count(ts, LAMBDA t : t.category = c)],
         overdue |-> Count(ts, LAMBDA t : isOverdue(t)),
         dueSoon |-> Count(ts, LAMBDA t :
                         HasDaysUntilDue(t) /\ daysUntilDue(t) <= DueSoonDays),
         completed |-> Count(ts, LAMBDA t : t.status = "completed")]

(***************************************************************************)
(* TaskController                                                          *)
(***************************************************************************)
LoginError == "User harus login terlebih dahulu"
TitleError == "Judul task wajib diisi"
AssigneeError == "User yang di-assign tidak ditemukan"
NotFoundError == "Task tidak ditemukan"
AccessError == "Anda tidak memiliki akses ke task ini"
UpdateOwnerError == "Hanya owner yang bisa mengubah task"
DeleteOwnerError == "Hanya owner yang bisa menghapus task"
DeleteFailedError == "Gagal menghapus task"
QueryError == "Query pencarian tidak boleh kosong"
UserNotFoundError == "User tidak ditemukan"

NoCount == 0 - 1

\* The response envelope {success, data?, message?, error?, count?}; a key
\* that is absent is Undefined (data: the empty sequence, count: NoCount).
Envelope(success, error, message, data, count) ==
    [success |-> success, error |-> error, message |-> message,
     data |-> data, count |-> count]

Fail(msg) == Envelope(FALSE, msg, Undefined, << >>, NoCount)
NoEnvelope == Envelope(FALSE, Undefined, Undefined, << >>, NoCount)

\* What a controller call leaves behind: the envelope it returned, or that
\* it threw and with what message, and the repository's state.
Returned(resp, r) ==
    [threw |-> FALSE, error |-> Undefined, resp |-> resp,
     tasks |-> r.tasks, storage |-> r.storage, nextId |-> r.nextId]
Thrown(msg, r) ==
    [threw |-> TRUE, error |-> msg, resp |-> NoEnvelope,
     tasks |-> r.tasks, storage |-> r.storage, nextId |-> r.nextId]

\* the repository as the call found it
Here == [tasks |-> tasks, storage |-> storage, nextId |-> nextId]

\* A catch block that lets the error out.
Catch_Rethrow(o) == o

\* catch (error) { return { success: false, error: error.message } }
Catch(o) == IF o.threw THEN Returned(Fail(o.error), o) ELSE o

\* A spread written after ownerId, so that taskData's ownerId wins.
TaskToCreate_SpreadLast(taskData) ==
    Spread([k \in DOMAIN taskData \cup {"ownerId"} |->
               IF k \in DOMAIN taskData THEN taskData[k] ELSE currentUser],
           "assigneeId", OrElse(Field(taskData, "assigneeId"), currentUser))

\* taskToCreate = {...taskData, ownerId: ..., assigneeId: ...}
TaskToCreate(taskData) ==
    Spread(Spread(taskData, "ownerId", currentUser), "assigneeId",
           OrElse(Field(taskData, "assigneeId"), currentUser))

\* the body of createTask's try block
createTaskTry(taskData) ==
    IF currentUser = Null THEN Returned(Fail(LoginError), Here)
    ELSE IF taskData = NullObj THEN Thrown(TypeErrorNullArg, Here)
    ELSE IF ~Truthy(Field(taskData, "title")) \/ Trim(taskData["title"]) = ""
    THEN Returned(Fail(TitleError), Here)
    ELSE LET taskToCreate == TaskToCreate(taskData)
             r == create(taskToCreate)
         IN  IF /\ taskToCreate["assigneeId"] # currentUser
                /\ userFindById(taskToCreate["assigneeId"]) = Null
             THEN Returned(Fail(AssigneeError), Here)
             ELSE IF r.threw THEN Thrown(r.error, r)
             ELSE Returned(Envelope(TRUE, Undefined, "Task berhasil dibuat",
                                    r.ret, NoCount), r)

createTask(taskData) == Catch(createTaskTry(taskData))

\* A spread written after ownerId, so that the filters' ownerId wins.
UserFilters_FiltersWin(filters) ==
    IF "ownerId" \in DOMAIN filters THEN filters
    ELSE Spread(filters, "ownerId", currentUser)

\* userFilters = {...filters, ownerId: this.currentUser.id}
UserFilters(filters) == Spread(filters, "ownerId", currentUser)

\* the body of getTasks's try block: one outcome for each result of sort
getTasksTry(filters) ==
    IF currentUser = Null THEN {Returned(Fail(LoginError), Here)}
    ELSE IF filters = NullObj THEN {Thrown(TypeErrorNullArg, Here)}
    ELSE LET userFilters == UserFilters(filters)
             sortBy == OrElse(Field(filters, "sortBy"), "createdAt")
             sortOrder == OrElse(Field(filters, "sortOrder"), "desc")
         IN  {Returned(Envelope(TRUE, Undefined, Undefined, ts, Len(ts)), Here) :
                 ts \in sort(filter(userFilters), sortBy, sortOrder)}

getTasks(filters) == {Catch(o) : o \in getTasksTry(filters)}

\* A query that forgets to scope its results to the caller.
OwnerOrAssignee_Unscoped(t) == t.ownerId = t.ownerId

\* the filter of searchTasks, getOverdueTasks and getTasksDueSoon
OwnerOrAssignee(t) == t.ownerId = currentUser \/ t.assigneeId = currentUser

\* An access test that forgets the assignee.
MayGet_OwnerOnly(t) == t.ownerId = currentUser

\* getTask's access test (the code tests its negation)
MayGet(t) == t.ownerId = currentUser \/ t.assigneeId = currentUser

\* the body of getTask's try block
getTaskTry(taskId) ==
    LET task == findById(taskId)
    IN  IF currentUser = Null THEN Returned(Fail(LoginError), Here)
        ELSE IF task = << >> THEN Returned(Fail(NotFoundError), Here)
        ELSE IF ~MayGet(task[1]) THEN Returned(Fail(AccessError), Here)
        ELSE Returned(Envelope(TRUE, Undefined, Undefined, task, NoCount), Here)

getTask(taskId) == Catch(getTaskTry(taskId))

\* An access test that lets the assignee update as well.
MayUpdate_OrAssignee(t) == t.ownerId = currentUser \/ t.assigneeId = currentUser

\* updateTask's access test (the code tests its negation)
MayUpdate(t) == t.ownerId = currentUser

\* updateTask with the assignee looked up before the task and its owner
updateTaskTry_AssigneeFirst(taskId, updates) ==
    LET task == findById(taskId)
        r == update(taskId, updates)
    IN  IF currentUser = Null THEN Returned(Fail(LoginError), Here)
        ELSE IF updates = NullObj THEN Thrown(TypeErrorNullArg, Here)
        ELSE IF /\ Truthy(Field(updates, "assigneeId"))
                /\ userFindById(updates["assigneeId"]) = Null
        THEN Returned(Fail(AssigneeError), Here)
        ELSE IF task = << >> THEN Returned(Fail(NotFoundError), Here)
        ELSE IF ~MayUpdate(task[1]) THEN Returned(Fail(UpdateOwnerError), Here)
        ELSE IF r.threw THEN Thrown(r.error, r)
        ELSE Returned(Envelope(TRUE, Undefined, "Task berhasil diupdate",
                               r.ret, NoCount), r)

\* the body of updateTask's try block
updateTaskTry(taskId, updates) ==
    LET task == findById(taskId)
        r == update(taskId, updates)
    IN  IF currentUser = Null THEN Returned(Fail(LoginError), Here)
        ELSE IF task = << >> THEN Returned(Fail(NotFoundError), Here)
        ELSE IF ~MayUpdate(task[1]) THEN Returned(Fail(UpdateOwnerError), Here)
        ELSE IF updates = NullObj THEN Thrown(TypeErrorNullArg, Here)
        ELSE IF /\ Truthy(Field(updates, "assigneeId"))
                /\ userFindById(updates["assigneeId"]) = Null
        THEN Returned(Fail(AssigneeError), Here)
        ELSE IF r.threw THEN Thrown(r.error, r)
        ELSE Returned(Envelope(TRUE, Undefined, "Task berhasil diupdate",
                               r.ret, NoCount), r)

updateTask(taskId, updates) == Catch(updateTaskTry(taskId, updates))

\* An access test that lets the assignee delete as well.
MayDelete_OrAssignee(t) == t.ownerId = currentUser \/ t.assigneeId = currentUser

\* deleteTask's access test (the code tests its negation)
MayDelete(t) == t.ownerId = currentUser

\* the body of deleteTask's try block
deleteTaskTry(taskId) ==
    LET task == findById(taskId)
        r == delete(taskId)
    IN  IF currentUser = Null THEN Returned(Fail(LoginError), Here)
        ELSE IF task = << >> THEN Returned(Fail(NotFoundError), Here)
        ELSE IF ~MayDelete(task[1]) THEN Returned(Fail(DeleteOwnerError), Here)
        ELSE IF r.ret = <<TRUE>>
        THEN Returned(Envelope(TRUE, Undefined, "Task berhasil dihapus",
                               << >>, NoCount), r)
        ELSE Returned(Fail(DeleteFailedError), r)

deleteTask(taskId) == Catch(deleteTaskTry(taskId))

\* An access test that forgets the assignee.
MayToggle_OwnerOnly(t) == t.ownerId = currentUser

\* toggleTaskStatus's access test (the code tests its negation)
MayToggle(t) == t.ownerId = currentUser \/ t.assigneeId = currentUser

\* A toggle that tests for 'pending' instead of 'completed'.
NewStatus_TestsPending(status) ==
    IF status = "pending" THEN "completed" ELSE "pending"

\* newStatus = task.status === 'completed' ? 'pending' : 'completed'
NewStatus(status) == IF status = "completed" THEN "pending" ELSE "completed"

\* the body of toggleTaskStatus's try block; it does not look at whether a
\* user is logged in, and this.currentUser.id throws when none is
toggleTaskStatusTry(taskId) ==
    LET task == findById(taskId)
        newStatus == NewStatus(task[1].status)
        r == update(taskId, [status |-> newStatus])
    IN  IF task = << >> THEN Returned(Fail(NotFoundError), Here)
        ELSE IF currentUser = Null THEN Thrown(TypeErrorNullId, Here)
        ELSE IF ~MayToggle(task[1]) THEN Returned(Fail(AccessError), Here)
        ELSE IF r.threw THEN Thrown(r.error, r)
        ELSE Returned(Envelope(TRUE, Undefined,
                               IF newStatus = "completed"
                               THEN "Task selesai" ELSE "Task belum selesai",
                               r.ret, NoCount), r)

toggleTaskStatus(taskId) == Catch(toggleTaskStatusTry(taskId))

\* the body of searchTasks's try block
searchTasksTry(query) ==
    IF currentUser = Null THEN Returned(Fail(LoginError), Here)
    ELSE IF ~Truthy(query) \/ Trim(query) = "" THEN Returned(Fail(QueryError), Here)
    ELSE LET userResults == Filter(search(query), OwnerOrAssignee)
         IN  Returned(Envelope(TRUE, Undefined, Undefined,
                               userResults, Len(userResults)), Here)

searchTasks(query) == Catch(searchTasksTry(query))

\* the body of getTaskStats's try block
getTaskStatsTry ==
    IF currentUser = Null THEN Returned(Fail(LoginError), Here)
    ELSE Returned(Envelope(TRUE, Undefined, Undefined,
                           getStats(currentUser), NoCount), Here)

getTaskStats == Catch(getTaskStatsTry)

\* the body of getOverdueTasks's try block
getOverdueTasksTry ==
    IF currentUser = Null THEN Returned(Fail(LoginError), Here)
    ELSE LET overdueTasks == Filter(findOverdue, OwnerOrAssignee)
         IN  Returned(Envelope(TRUE, Undefined, Undefined,
                               overdueTasks, Len(overdueTasks)), Here)

getOverdueTasks == Catch(getOverdueTasksTry)

\* the body of getTasksDueSoon's try block
getTasksDueSoonTry(days) ==
    IF currentUser = Null THEN Returned(Fail(LoginError), Here)
    ELSE LET dueSoonTasks == Filter(findDueSoon(days), OwnerOrAssignee)
         IN  Returned(Envelope(TRUE, Undefined, Undefined,
                               dueSoonTasks, Len(dueSoonTasks)), Here)

getTasksDueSoon(days) == Catch(getTasksDueSoonTry(days))

\* setCurrentUser(userId): the field is assigned before the check
setCurrentUser(userId) ==
    [currentUser |-> userFindById(userId),
     threw |-> userFindById(userId) = Null,
     error |-> IF userFindById(userId) = Null THEN UserNotFoundError ELSE Undefined]

(***************************************************************************)
(* The state machine: one action for each call a client of the controller  *)
(* can make.                                                               *)
(***************************************************************************)
\* The call that was made last and what came of it; `was` is the status the
\* task of a toggleTaskStatus call had when the call was made.
Call(op, id, arg, o) ==
    [op |-> op, id |-> id, arg |-> arg, was |-> Undefined,
     resp |-> o.resp, threw |-> o.threw, error |-> o.error]

NoCall == [op |-> "none", id |-> 0, arg |-> EmptyObj, was |-> Undefined,
           resp |-> NoEnvelope, threw |-> FALSE, error |-> Undefined]

\* Both repositories hydrated from the Storage Port, which holds three users
\* and no task; nobody is logged in.
Init ==
    /\ users = [u \in UserIds |-> [id |-> u]]
    /\ currentUser = Null
    /\ tasks = << >>
    /\ storage = << >>
    /\ nextId = 1
    /\ now = Today
    /\ last = NoCall

\* The arguments the clients of the model pass.
UserIdInputs == UserIds \cup {GhostId}
TaskIdInputs == {TaskIdOf(n) : n \in 1..MaxTasks}
TaskDataInputs ==
    {[title |-> t] : t \in {"Buy milk", "   "}}
    \cup {[title |-> "Buy milk", assigneeId |-> a] : a \in {"u2", "u3", GhostId, ""}}
    \cup {[title |-> "Buy milk", ownerId |-> "u2"],
          [title |-> "Buy milk", priority |-> "bogus"], NullObj}
UpdateInputs ==
    {[priority |-> "bogus"], [ownerId |-> "u2", status |-> "blocked"], NullObj}
    \cup {[assigneeId |-> a] : a \in UserIds \cup {GhostId, Null}}
FilterInputs ==
    {EmptyObj, NullObj,
     [ownerId |-> "u2", sortBy |-> "priority", sortOrder |-> "asc"]}
QueryInputs == {"MILK", "   ", Null}
DaysInputs == {DueSoonDays}

\* The repository as the call left it.  A run creates MaxTasks tasks at most.
Commit(o) ==
    /\ o.nextId <= MaxTasks + 1
    /\ tasks' = o.tasks
    /\ storage' = o.storage
    /\ nextId' = o.nextId
    /\ UNCHANGED <<users, currentUser, now>>

SetCurrentUser(userId) ==
    LET o == setCurrentUser(userId)
    IN  /\ currentUser' = o.currentUser
        /\ last' = [op |-> "setCurrentUser", id |-> 0, arg |-> [userId |-> userId],
                    was |-> Undefined,
                    resp |-> NoEnvelope, threw |-> o.threw, error |-> o.error]
        /\ UNCHANGED <<users, tasks, storage, nextId, now>>

CreateTask(taskData) ==
    LET o == createTask(taskData)
    IN  /\ Commit(o)
        /\ last' = Call("createTask", 0, taskData, o)

GetTasks(filters) ==
    \E o \in getTasks(filters) :
        /\ Commit(o)
        /\ last' = Call("getTasks", 0, filters, o)

GetTask(taskId) ==
    LET o == getTask(taskId)
    IN  /\ Commit(o)
        /\ last' = Call("getTask", taskId, EmptyObj, o)

UpdateTask(taskId, updates) ==
    LET o == updateTask(taskId, updates)
    IN  /\ Commit(o)
        /\ last' = Call("updateTask", taskId, updates, o)

DeleteTask(taskId) ==
    LET o == deleteTask(taskId)
    IN  /\ Commit(o)
        /\ last' = Call("deleteTask", taskId, EmptyObj, o)

ToggleTaskStatus(taskId) ==
    LET o == toggleTaskStatus(taskId)
    IN  /\ Commit(o)
        /\ last' = [Call("toggleTaskStatus", taskId, EmptyObj, o) EXCEPT
                        !.was = IF Has(tasks, taskId)
                                THEN TaskOf(tasks, taskId).status ELSE Undefined]

SearchTasks(query) ==
    LET o == searchTasks(query)
    IN  /\ Commit(o)
        /\ last' = Call("searchTasks", 0, [query |-> query], o)

GetTaskStats ==
    LET o == getTaskStats
    IN  /\ Commit(o)
        /\ last' = Call("getTaskStats", 0, EmptyObj, o)

GetOverdueTasks ==
    LET o == getOverdueTasks
    IN  /\ Commit(o)
        /\ last' = Call("getOverdueTasks", 0, EmptyObj, o)

GetTasksDueSoon(days) ==
    LET o == getTasksDueSoon(days)
    IN  /\ Commit(o)
        /\ last' = Call("getTasksDueSoon", 0, [days |-> days], o)

Next ==
    \/ \E userId \in UserIdInputs : SetCurrentUser(userId)
    \/ \E taskData \in TaskDataInputs : CreateTask(taskData)
    \/ \E filters \in FilterInputs : GetTasks(filters)
    \/ \E taskId \in TaskIdInputs : GetTask(taskId)
    \/ \E taskId \in TaskIdInputs, updates \in UpdateInputs : UpdateTask(taskId, updates)
    \/ \E taskId \in TaskIdInputs : DeleteTask(taskId)
    \/ \E taskId \in TaskIdInputs : ToggleTaskStatus(taskId)
    \/ \E query \in QueryInputs : SearchTasks(query)
    \/ GetTaskStats
    \/ GetOverdueTasks
    \/ \E days \in DaysInputs : GetTasksDueSoon(days)

Spec == Init /\ [][Next]_vars

(***************************************************************************)
(* The controller's scoped queries, over tasks that carry due dates: past, *)
(* today, at the end of the three-day window and beyond it.                *)
(***************************************************************************)
QueryTaskDataInputs ==
    {[title |-> "Buy milk", assigneeId |-> "u2", dueDate |-> Today - 1],
     [title |-> "Buy milk", dueDate |-> Today],
     [title |-> "Pay rent", dueDate |-> Today + DueSoonDays],
     [title |-> "Buy milk", assigneeId |-> "u3", dueDate |-> Today + DueSoonDays + 1],
     [title |-> "Pay rent"]}
QueryUpdateInputs == {[assigneeId |-> "u3"]}
QueryQueryInputs == {"MILK", "rent"}
QueryDaysInputs == {0, DueSoonDays}

QueryNext ==
    \/ \E userId \in UserIds : SetCurrentUser(userId)
    \/ \E taskData \in QueryTaskDataInputs : CreateTask(taskData)
    \/ \E taskId \in TaskIdInputs, updates \in QueryUpdateInputs :
           UpdateTask(taskId, updates)
    \/ \E taskId \in TaskIdInputs : ToggleTaskStatus(taskId)
    \/ \E query \in QueryQueryInputs : SearchTasks(query)
    \/ GetOverdueTasks
    \/ \E days \in QueryDaysInputs : GetTasksDueSoon(days)

QuerySpec == Init /\ [][QueryNext]_vars

(***************************************************************************)
(* The TaskRepository called directly, as its own clients and tests do.    *)
(* `clean` tells that no call has thrown so far.                           *)
(***************************************************************************)
RepoCall(op, id, arg, r) ==
    [op |-> op, id |-> id, arg |-> arg, ret |-> r.ret,
     threw |-> r.threw, error |-> r.error, clean |-> last.clean /\ ~r.threw]

RepoInit ==
    /\ users = [u \in UserIds |-> [id |-> u]]
    /\ currentUser = Null
    /\ tasks = << >>
    /\ storage = << >>
    /\ nextId = 1
    /\ now = Today
    /\ last = [op |-> "none", id |-> 0, arg |-> EmptyObj, ret |-> << >>,
               threw |-> FALSE, error |-> Undefined, clean |-> TRUE]

RepoTaskDataInputs ==
    {[title |-> "Buy milk", ownerId |-> "u1"],
     [title |-> "Pay rent", ownerId |-> "u2", priority |-> "high",
      dueDate |-> Today + 1, tags |-> <<"home">>],
     [title |-> "Buy milk", ownerId |-> "u1", priority |-> "bogus"]}
RepoUpdateInputs ==
    {[title |-> "Pay rent", priority |-> "bogus", status |-> "blocked"],
     [priority |-> "low", status |-> "bogus", addTag |-> "home"],
     [status |-> "completed", addTag |-> "home"],
     [title |-> "Buy milk", removeTag |-> "home"],
     [ownerId |-> "u3"],
     NullObj}

RepoCreate(taskData) ==
    LET r == create(taskData)
    IN  /\ Commit(r)
        /\ last' = RepoCall("create", 0, taskData, r)

RepoFindById(id) ==
    LET r == RepoResult(FALSE, Undefined, findById(id), tasks, storage, nextId)
    IN  /\ Commit(r)
        /\ last' = RepoCall("findById", id, EmptyObj, r)

RepoUpdate(id, updates) ==
    LET r == update(id, updates)
    IN  /\ Commit(r)
        /\ last' = RepoCall("update", id, updates, r)

RepoDelete(id) ==
    LET r == delete(id)
    IN  /\ Commit(r)
        /\ last' = RepoCall("delete", id, EmptyObj, r)

\* new TaskRepository(storage): a new repository over the same Storage Port
\* takes the place of the old one.
RepoReload ==
    LET r == RepoResult(FALSE, Undefined, << >>,
                        loadTasksFromStorage(storage), storage, nextId)
    IN  /\ Commit(r)
        /\ last' = RepoCall("reload", 0, EmptyObj, r)

RepoNext ==
    \/ \E taskData \in RepoTaskDataInputs : RepoCreate(taskData)
    \/ \E id \in TaskIdInputs : RepoFindById(id)
    \/ \E id \in TaskIdInputs, updates \in RepoUpdateInputs : RepoUpdate(id, updates)
    \/ \E id \in TaskIdInputs : RepoDelete(id)
    \/ RepoReload

RepoSpec == RepoInit /\ [][RepoNext]_vars

(***************************************************************************)
(* The queries of the TaskRepository (filter, sort, getStats, findDueSoon) *)
(* over an index of up to MaxIndex tasks that differ in owner, assignee,   *)
(* category, priority, status, due date and tags.                          *)
(***************************************************************************)
FindTaskDataInputs ==
    {[title |-> "Buy milk", ownerId |-> "u1", priority |-> "low",
      dueDate |-> Today - 1],
     [title |-> "Pay rent", ownerId |-> "u1", assigneeId |-> "u2",
      priority |-> "urgent", category |-> "finance",
      dueDate |-> Today + DueSoonDays, tags |-> <<"home">>],
     [title |-> "Buy milk", ownerId |-> "u2", priority |-> "high",
      dueDate |-> Today, tags |-> <<"home", "shop">>],
     [title |-> "Pay rent", ownerId |-> "u2", category |-> "work",
      dueDate |-> Today + DueSoonDays + 1],
     [title |-> "Buy milk", ownerId |-> "u1", priority |-> "urgent"]}
FindUpdateInputs == {[status |-> "completed"]}
FindFilterInputs ==
    {EmptyObj,
     [ownerId |-> "u1"],
     [ownerId |-> "u1", status |-> "pending"],
     [assigneeId |-> "u2", priority |-> "urgent"],
     [category |-> "work"],
     [overdue |-> TRUE],
     [dueSoon |-> TRUE],
     [tags |-> <<"shop", "garden">>],
     [status |-> "", overdue |-> FALSE, tags |-> << >>],
     [ownerId |-> "u1", dueSoon |-> TRUE, tags |-> <<"home">>]}
SortByInputs == {"title", "priority", "dueDate", "createdAt"}
SortOrderInputs == {"asc", "desc"}
StatsUserInputs == {"u1", "u2", Null}

\* The repository as a query left it; a run creates MaxIndex tasks at most.
FindCommit(r) ==
    /\ r.nextId <= MaxIndex + 1
    /\ tasks' = r.tasks
    /\ storage' = r.storage
    /\ nextId' = r.nextId
    /\ UNCHANGED <<users, currentUser, now>>

\* a query: it returns ret and leaves the repository as it is
Query(ret) == RepoResult(FALSE, Undefined, ret, tasks, storage, nextId)

FindCreate(taskData) ==
    LET r == create(taskData)
    IN  /\ FindCommit(r)
        /\ last' = RepoCall("create", 0, taskData, r)

FindUpdate(id, updates) ==
    LET r == update(id, updates)
    IN  /\ FindCommit(r)
        /\ last' = RepoCall("update", id, updates, r)

FindFilter(filters) ==
    LET r == Query(filter(filters))
    IN  /\ FindCommit(r)
        /\ last' = RepoCall("filter", 0, filters, r)

\* sort(this.findAll(), sortBy, order)
FindSort(sortBy, order) ==
    \E sorted \in sort(findAll, sortBy, order) :
        LET r == Query(sorted)
        IN  /\ FindCommit(r)
            /\ last' = RepoCall("sort", 0, [sortBy |-> sortBy, order |-> order], r)

FindGetStats(userId) ==
    LET r == Query(getStats(userId))
    IN  /\ FindCommit(r)
        /\ last' = RepoCall("getStats", 0, [userId |-> userId], r)

FindDueSoon(days) ==
    LET r == Query(findDueSoon(days))
    IN  /\ FindCommit(r)
        /\ last' = RepoCall("findDueSoon", 0, [days |-> days], r)

FindNext ==
    \/ \E taskData \in FindTaskDataInputs : FindCreate(taskData)
    \/ \E id \in 1..MaxIndex, updates \in FindUpdateInputs : FindUpdate(TaskIdOf(id), updates)
    \/ \E filters \in FindFilterInputs : FindFilter(filters)
    \/ \E sortBy \in SortByInputs, order \in SortOrderInputs : FindSort(sortBy, order)
    \/ \E userId \in StatsUserInputs : FindGetStats(userId)
    \/ \E days \in DaysInputs : FindDueSoon(days)

FindSpec == RepoInit /\ [][FindNext]_vars

(***************************************************************************)
(* UserRepository.create.  The file of the UserRepository is not among the *)
(* sources (its tests are); create is modelled from the specification and  *)
(* from what its tests expect: the username is looked up first, then the   *)
(* email, and a user that clashes is not created.  An error message is the *)
(* sequence of its parts.                                                  *)
(***************************************************************************)
UsernameTaken(username) == <<"Username '", username, "' sudah digunakan">>
EmailTaken(email) == <<"Email '", email, "' sudah digunakan">>

findByUsername(username) == {id \in DOMAIN users : users[id].username = username}
findByEmail(email) == {id \in DOMAIN users : users[id].email = email}

UserIdOf(n) == n

\* A create that looks the email up before the username.
userCreate_EmailFirst(userData) ==
    LET id == UserIdOf(Cardinality(DOMAIN users) + 1)
        user == [id |-> id, username |-> userData.username, email |-> userData.email]
    IN  IF findByEmail(userData.email) # {}
        THEN [threw |-> TRUE, error |-> EmailTaken(userData.email), users |-> users]
        ELSE IF findByUsername(userData.username) # {}
        THEN [threw |-> TRUE, error |-> UsernameTaken(userData.username),
              users |-> users]
        ELSE [threw |-> FALSE, error |-> << >>,
              users |-> [u \in DOMAIN users \cup {id} |->
                            IF u = id THEN user ELSE users[u]]]

\* UserRepository.create(userData)
userCreate(userData) ==
    LET id == UserIdOf(Cardinality(DOMAIN users) + 1)
        user == [id |-> id, username |-> userData.username, email |-> userData.email]
    IN  IF findByUsername(userData.username) # {}
        THEN [threw |-> TRUE, error |-> UsernameTaken(userData.username),
              users |-> users]
        ELSE IF findByEmail(userData.email) # {}
        THEN [threw |-> TRUE, error |-> EmailTaken(userData.email), users |-> users]
        ELSE [threw |-> FALSE, error |-> << >>,
              users |-> [u \in DOMAIN users \cup {id} |->
                            IF u = id THEN user ELSE users[u]]]

UserDataInputs ==
    [username : {"testuser", "different", "user2"},
     email : {"test@example.com", "user2@example.com", "Test@example.com"}]

UserInit ==
    /\ users = [u \in {} |-> u]
    /\ currentUser = Null
    /\ tasks = << >>
    /\ storage = << >>
    /\ nextId = 1
    /\ now = Today
    /\ last = [op |-> "none", arg |-> EmptyObj, threw |-> FALSE, error |-> << >>]

UserCreate(userData) ==
    LET r == userCreate(userData)
    IN  /\ Cardinality(DOMAIN r.users) <= MaxUsers
        /\ users' = r.users
        /\ last' = [op |-> "create", arg |-> userData,
                    threw |-> r.threw, error |-> r.error]
        /\ UNCHANGED <<currentUser, tasks, storage, nextId, now>>

UserNext == \E userData \in UserDataInputs : UserCreate(userData)

UserSpec == UserInit /\ [][UserNext]_vars

(***************************************************************************)
(* Hydration: a TaskRepository constructed over a Storage Port that holds  *)
(* any list of records, some of which the entity layer refuses, or whose   *)
(* load throws.                                                            *)
(***************************************************************************)
\* a record as toJSON writes it, of the given id and priority
StoredRecord(id, priority) ==
    [id |-> id, title |-> "Buy milk", description |-> "", ownerId |-> "u1",
     assigneeId |-> "u1", category |-> "personal", priority |-> priority,
     status |-> "pending", dueDate |-> Null, estimatedHours |-> 0,
     timeSpent |-> 0, tags |-> << >>, notes |-> << >>,
     createdAt |-> toISOString(Today)]

StoredInputs ==
    {StoredRecord(1, "medium"), StoredRecord(2, "high"), StoredRecord(3, "bogus")}

\* the constructor: _loadTasksFromStorage in its try block; what storage.load
\* or fromJSON throws is caught and logged
construct(loadThrows) ==
    IF loadThrows THEN << >> ELSE loadTasksFromStorage(storage)

LoadInit ==
    /\ users = [u \in UserIds |-> [id |-> u]]
    /\ currentUser = Null
    /\ tasks = << >>
    /\ storage \in UNION {[1..n -> StoredInputs] : n \in 0..MaxStored}
    /\ nextId = 1
    /\ now = Today
    /\ last = [op |-> "none", failed |-> FALSE, threw |-> FALSE, ret |-> << >>]

\* new TaskRepository(storage)
LoadConstruct(loadThrows) ==
    /\ tasks' = construct(loadThrows)
    /\ last' = [op |-> "construct",
                failed |-> \/ loadThrows
                           \/ \E i \in 1..Len(storage) : fromJSON(storage[i]).threw,
                threw |-> FALSE, ret |-> << >>]
    /\ UNCHANGED <<users, currentUser, storage, nextId, now>>

LoadFindAll ==
    /\ last.op # "none"
    /\ last' = [last EXCEPT !.op = "findAll", !.ret = findAll]
    /\ UNCHANGED <<users, currentUser, tasks, storage, nextId, now>>

LoadNext ==
    \/ \E loadThrows \in BOOLEAN : LoadConstruct(loadThrows)
    \/ LoadFindAll

LoadSpec == LoadInit /\ [][LoadNext]_vars

(***************************************************************************)
(* The controller under calls that fail: every operation, with inputs that *)
(* make each of its checks refuse and the repository call raise a domain   *)
(* error, before or after a first field was written.                       *)
(***************************************************************************)
FrameUserInputs == {"u1", "u2", GhostId}
FrameTaskDataInputs ==
    {[title |-> "Buy milk"], [title |-> "   "],
     [title |-> "Buy milk", assigneeId |-> GhostId],
     [title |-> "Buy milk", assigneeId |-> "u2", priority |-> "bogus"]}
FrameUpdateInputs ==
    {[title |-> "Pay rent"], [status |-> "bogus"], [assigneeId |-> GhostId],
     [title |-> "Pay rent", priority |-> "bogus"]}
FrameQueryInputs == {"MILK", "   "}

FrameNext ==
    \/ \E userId \in FrameUserInputs : SetCurrentUser(userId)
    \/ \E taskData \in FrameTaskDataInputs : CreateTask(taskData)
    \/ GetTasks(EmptyObj)
    \/ \E taskId \in TaskIdInputs \cup {TaskIdOf(MaxTasks + 1)} : GetTask(taskId)
    \/ \E taskId \in TaskIdInputs \cup {TaskIdOf(MaxTasks + 1)},
          updates \in FrameUpdateInputs : UpdateTask(taskId, updates)
    \/ \E taskId \in TaskIdInputs \cup {TaskIdOf(MaxTasks + 1)} : DeleteTask(taskId)
    \/ \E taskId \in TaskIdInputs \cup {TaskIdOf(MaxTasks + 1)} : ToggleTaskStatus(taskId)
    \/ \E query \in FrameQueryInputs : SearchTasks(query)
    \/ GetTaskStats
    \/ GetOverdueTasks
    \/ \E days \in DaysInputs : GetTasksDueSoon(days)

FrameSpec == Init /\ [][FrameNext]_vars

(***************************************************************************)
(* Properties                                                              *)
(***************************************************************************)
TaskOps ==
    {"createTask", "getTasks", "getTask", "updateTask", "deleteTask",
     "toggleTaskStatus", "searchTasks", "getTaskStats", "getOverdueTasks",
     "getTasksDueSoon"}

\* C1: while no user is logged in, every task operation of the controller
\* returns {success: false, error: 'User harus login terlebih dahulu'}.
\* (No task operation changes currentUser, so the user after the call is the
\* user the call saw.)
C1_LoginRequired ==
    (last.op \in TaskOps /\ currentUser = Null)
        => (~last.threw /\ last.resp = Fail(LoginError))

\* C2: no task operation of the controller throws to its caller; it returns
\* an envelope whose success is a boolean and which, on failure, carries an
\* error message.
C2_NeverThrows ==
    last.op \in TaskOps
        => /\ ~last.threw
           /\ last.resp.success \in BOOLEAN
           /\ ~last.resp.success => last.resp.error # Undefined

\* An error raised by the entity layer under the repository, or by the
\* controller's own code, came back as an envelope.
C2_Witness ==
    /\ last.op \in {"updateTask", "createTask"}
    /\ ~last.threw
    /\ last.resp = Fail(InvalidPriority)

\* C3: updateTask on an existing task succeeds only for the task's owner; for
\* any other logged-in user, the assignee included, it returns
\* 'Hanya owner yang bisa mengubah task' and changes nothing.
C3_UpdateOnlyByOwner ==
    [][(last'.op = "updateTask" /\ Has(tasks, last'.id) /\ currentUser # Null)
        => /\ last'.resp.success => TaskOf(tasks, last'.id).ownerId = currentUser
           /\ TaskOf(tasks, last'.id).ownerId # currentUser
                => /\ last'.resp = Fail(UpdateOwnerError)
                   /\ tasks' = tasks
                   /\ storage' = storage]_vars

\* The assignee of a task, who is not its owner, was refused.
C3_Witness ==
    /\ last.op = "updateTask"
    /\ last.resp = Fail(UpdateOwnerError)
    /\ Has(tasks, last.id)
    /\ TaskOf(tasks, last.id).assigneeId = currentUser
    /\ TaskOf(tasks, last.id).ownerId # currentUser

\* C4: deleteTask removes a task only for its owner.  A logged-in user who
\* is not the owner, the assignee included, gets 'Hanya owner yang bisa
\* menghapus task' and the task stays; the owner gets success, the task is
\* then absent from the index and from the Storage Port, getTask answers
\* 'Task tidak ditemukan' for its id, and a deleted id stays absent.
C4_DeleteOnlyByOwner ==
    [][\A id \in TaskIdInputs :
        /\ (last'.op = "deleteTask" /\ last'.id = id /\ Has(tasks, id)
                /\ currentUser # Null)
            => IF TaskOf(tasks, id).ownerId = currentUser
               THEN /\ last'.resp.success
                    /\ ~Has(tasks', id)
                    /\ ~Has(storage', id)
                    /\ tasks' = SelectSeq(tasks, LAMBDA t : t.id # id)
                    /\ (getTask(id).resp = Fail(NotFoundError))'
               ELSE /\ last'.resp = Fail(DeleteOwnerError)
                    /\ tasks' = tasks
                    /\ storage' = storage
        /\ (id < TaskIdOf(nextId) /\ ~Has(tasks, id)) => ~Has(tasks', id)]_vars

\* The owner deleted a task: it is gone from the index and from storage.
C4_Witness ==
    /\ last.op = "deleteTask"
    /\ last.resp.success
    /\ ~Has(tasks, last.id)
    /\ ~Has(storage, last.id)
    /\ nextId > last.id

\* C5: getTask by a logged-in user on an existing task returns the task if
\* and only if the user is its owner or its current assignee, and 'Anda tidak
\* memiliki akses ke task ini' otherwise; a successful updateTask that carries
\* an assigneeId makes that user the current assignee.
C5_GetOwnerOrAssignee ==
    /\ [](( last.op = "getTask" /\ Has(tasks, last.id) /\ currentUser # Null)
            => IF \/ TaskOf(tasks, last.id).ownerId = currentUser
                  \/ TaskOf(tasks, last.id).assigneeId = currentUser
               THEN /\ last.resp.success
                    /\ last.resp.data = <<TaskOf(tasks, last.id)>>
               ELSE last.resp = Fail(AccessError))
    /\ [][(/\ last'.op = "updateTask"
           /\ last'.resp.success
           /\ "assigneeId" \in DOMAIN last'.arg)
            => TaskOf(tasks', last'.id).assigneeId = last'.arg["assigneeId"]]_vars

\* A user who is neither the owner nor the assignee of a task that has an
\* assignee other than its owner was refused.
C5_Witness ==
    /\ last.op = "getTask"
    /\ last.resp = Fail(AccessError)
    /\ TaskOf(tasks, last.id).assigneeId \in UserIds
    /\ TaskOf(tasks, last.id).assigneeId # TaskOf(tasks, last.id).ownerId

\* C6: toggleTaskStatus on an existing task changes its status only for the
\* task's owner or current assignee, for whom it succeeds; any other logged-in
\* user gets 'Anda tidak memiliki akses ke task ini' and nothing changes.
C6_ToggleOwnerOrAssignee ==
    [][(last'.op = "toggleTaskStatus" /\ Has(tasks, last'.id))
        => IF /\ currentUser # Null
              /\ \/ TaskOf(tasks, last'.id).ownerId = currentUser
                 \/ TaskOf(tasks, last'.id).assigneeId = currentUser
           THEN /\ last'.resp.success
                /\ TaskOf(tasks', last'.id).status # TaskOf(tasks, last'.id).status
           ELSE /\ tasks' = tasks
                /\ storage' = storage
                /\ currentUser # Null => last'.resp = Fail(AccessError)]_vars

\* The assignee of a task, who is not its owner, toggled it.
C6_Witness ==
    /\ last.op = "toggleTaskStatus"
    /\ last.resp.success
    /\ TaskOf(tasks, last.id).assigneeId = currentUser
    /\ TaskOf(tasks, last.id).ownerId # currentUser

\* C7: a successful toggleTaskStatus turns 'completed' into 'pending' and any
\* other status into 'completed'; the second of two consecutive toggles of a
\* task leaves it 'pending' unless it started 'completed', and then
\* 'completed'.
C7_ToggleFlips ==
    [][\A id \in TaskIdInputs :
        (last'.op = "toggleTaskStatus" /\ last'.id = id /\ last'.resp.success)
        => LET before == TaskOf(tasks, id).status
               after == TaskOf(tasks', id).status
           IN  /\ last'.was = before
               /\ after = IF before = "completed" THEN "pending" ELSE "completed"
               /\ after \in {"completed", "pending"}
               /\ (last.op = "toggleTaskStatus" /\ last.id = id /\ last.resp.success)
                    => after = IF last.was = "completed"
                               THEN "completed" ELSE "pending"]_vars

\* A task that was toggled to 'completed' was toggled back to 'pending'.
C7_Witness ==
    /\ last.op = "toggleTaskStatus"
    /\ last.resp.success
    /\ last.was = "completed"
    /\ TaskOf(tasks, last.id).status = "pending"

\* C8: a task created by a successful createTask is owned by the current
\* user, whatever ownerId taskData carries, and assigned to taskData.assigneeId
\* when one is given, else to the current user; when the assigneeId given is
\* not the current user and names no user, createTask returns 'User yang
\* di-assign tidak ditemukan' and adds no task.
C8_CreateOwnedByCaller ==
    [][last'.op = "createTask"
        => /\ last'.resp.success
                => /\ Len(tasks') = Len(tasks) + 1
                   /\ SubSeq(tasks', 1, Len(tasks)) = tasks
                   /\ last'.resp.data = <<tasks'[Len(tasks')]>>
                   /\ tasks'[Len(tasks')].ownerId = currentUser
                   /\ currentUser \in DOMAIN users
                   /\ tasks'[Len(tasks')].assigneeId =
                        IF Truthy(Field(last'.arg, "assigneeId"))
                        THEN last'.arg["assigneeId"] ELSE currentUser
           /\ ~last'.resp.success => tasks' = tasks /\ storage' = storage
           /\ (/\ currentUser # Null
               /\ last'.arg # NullObj
               /\ Truthy(Field(last'.arg, "title"))
               /\ Trim(Field(last'.arg, "title")) # ""
               /\ Truthy(Field(last'.arg, "assigneeId"))
               /\ last'.arg["assigneeId"] # currentUser
               /\ last'.arg["assigneeId"] \notin DOMAIN users)
                => last'.resp = Fail(AssigneeError)]_vars

\* A task was created from a taskData that names another user as its owner.
C8_Witness ==
    /\ last.op = "createTask"
    /\ last.resp.success
    /\ "ownerId" \in DOMAIN last.arg
    /\ last.arg["ownerId"] # currentUser
    /\ tasks[Len(tasks)].ownerId = currentUser

\* C9: after any sequence of controller operations, the assigneeId of every
\* task in the index names a user of the UserRepository.
C9_AssigneeExists ==
    \A i \in 1..Len(tasks) : tasks[i].assigneeId \in DOMAIN users

\* C10: the ownerId of a task never changes after its creation, also under
\* updates that carry an ownerId key.
C10_OwnerNeverChanges ==
    [][\A i \in 1..Len(tasks), j \in 1..Len(tasks') :
        tasks[i].id = tasks'[j].id => tasks[i].ownerId = tasks'[j].ownerId]_vars

\* An update that carries another user's id as ownerId was applied.
C10_Witness ==
    /\ last.op = "updateTask"
    /\ last.resp.success
    /\ "ownerId" \in DOMAIN last.arg
    /\ TaskOf(tasks, last.id).status = "blocked"
    /\ TaskOf(tasks, last.id).ownerId # last.arg["ownerId"]

\* C11: getTasks and getTaskStats are pinned to the tasks the current user
\* owns: every task getTasks returns is owned by the current user, also when
\* filters.ownerId names another user, so a task that is only assigned to the
\* current user is never returned; count is the length of data; and the total
\* of getTaskStats is the number of tasks of the index the current user owns.
C11_PinnedToOwner ==
    /\ (last.op = "getTasks" /\ last.resp.success)
        => /\ \A i \in 1..Len(last.resp.data) :
                /\ last.resp.data[i].ownerId = currentUser
                /\ Has(tasks, last.resp.data[i].id)
           /\ last.resp.count = Len(last.resp.data)
           /\ last.arg = EmptyObj
                => \A i \in 1..Len(tasks) :
                       tasks[i].ownerId = currentUser
                           => Includes(last.resp.data, tasks[i])
    /\ (last.op = "getTaskStats" /\ last.resp.success)
        => last.resp.data.total =
               Cardinality({i \in 1..Len(tasks) : tasks[i].ownerId = currentUser})

\* getTasks was asked for the tasks of another user, who owns a task that is
\* assigned to the current user, and did not return it.
C11_Witness ==
    /\ last.op = "getTasks"
    /\ last.resp.success
    /\ "ownerId" \in DOMAIN last.arg
    /\ last.arg["ownerId"] # currentUser
    /\ \E i \in 1..Len(tasks) :
           /\ tasks[i].ownerId = last.arg["ownerId"]
           /\ tasks[i].assigneeId = currentUser
    /\ last.resp.data = << >>

\* The tasks of the index, in its order, that satisfy Match and of which the
\* current user is the owner or the assignee.
ScopedTo(Match(_)) ==
    SelectSeq(tasks, LAMBDA t :
        Match(t) /\ (t.ownerId = currentUser \/ t.assigneeId = currentUser))

\* C12: searchTasks, getOverdueTasks and getTasksDueSoon return exactly the
\* matching tasks (those of the repository's search; those that are overdue;
\* those due in 0 to `days` days) of which the current user is the owner or
\* the current assignee, and so never a task of which the user is neither.
C12_ScopedQueries ==
    /\ (last.op \in {"searchTasks", "getOverdueTasks", "getTasksDueSoon"}
            /\ last.resp.success)
        => /\ \A i \in 1..Len(last.resp.data) :
                \/ last.resp.data[i].ownerId = currentUser
                \/ last.resp.data[i].assigneeId = currentUser
           /\ last.resp.count = Len(last.resp.data)
    /\ (last.op = "searchTasks" /\ last.resp.success)
        => last.resp.data =
             ScopedTo(LAMBDA t : Includes(search(last.arg["query"]), t))
    /\ (last.op = "getOverdueTasks" /\ last.resp.success)
        => last.resp.data =
             ScopedTo(LAMBDA t : t.dueDate # NullDate /\ t.dueDate < now
                                 /\ t.status \notin {"completed", "cancelled"})
    /\ (last.op = "getTasksDueSoon" /\ last.resp.success)
        => last.resp.data =
             ScopedTo(LAMBDA t : /\ t.dueDate # NullDate
                                 /\ t.dueDate - now >= 0
                                 /\ t.dueDate - now <= last.arg["days"])

\* An overdue task is in the index, and getOverdueTasks did not show it to a
\* user who is neither its owner nor its assignee.
C12_Witness ==
    /\ last.op = "getOverdueTasks"
    /\ last.resp.success
    /\ last.resp.data = << >>
    /\ \E i \in 1..Len(tasks) :
           /\ isOverdue(tasks[i])
           /\ tasks[i].ownerId # currentUser
           /\ tasks[i].assigneeId # currentUser
           /\ tasks[i].assigneeId # tasks[i].ownerId

RepoMutations == {"create", "update", "delete"}

\* C13: write-through.  When a create, update or delete call of the
\* repository that changed the index has returned or thrown, the Storage Port
\* holds the serialization of exactly the tasks of the index, with the field
\* values they have now.
C13_WriteThrough ==
    [][(last'.op \in RepoMutations /\ tasks' # tasks)
        => storage' = saveTasksToStorage(tasks')]_vars

\* C14: round trip.  After calls none of which has thrown, a new repository
\* over the same storage holds the same task ids, and each id gives a task of
\* the same field values as in the first repository.
C14_RoundTrip ==
    /\ [](last.clean
            => LET fresh == loadTasksFromStorage(storage)
               IN  /\ {fresh[i].id : i \in 1..Len(fresh)}
                        = {tasks[i].id : i \in 1..Len(tasks)}
                   /\ Len(fresh) = Len(tasks)
                   /\ \A i \in 1..Len(tasks) :
                        TaskOf(fresh, tasks[i].id) = tasks[i])
    /\ [][(last'.op = "reload" /\ last'.clean) => tasks' = tasks]_vars

\* A new repository was constructed over the storage of one in which a task
\* had been created and then updated, and holds the updated task.
C14_Witness ==
    /\ last.op = "reload"
    /\ last.clean
    /\ \E i \in 1..Len(tasks) :
           tasks[i].status = "completed" /\ Includes(tasks[i].tags, "home")

\* the keys of update, in the order of its body
UpdateOrder ==
    <<"title", "description", "category", "priority", "status", "dueDate",
      "assigneeId", "estimatedHours", "addTimeSpent", "addTag", "removeTag",
      "addNote">>
SetterKeys ==
    {"title", "description", "category", "priority", "status", "dueDate",
     "assigneeId", "estimatedHours"}

\* the values the entity layer refuses
Refused(key, v) ==
    \/ key = "priority" /\ v \notin Range(Priorities)
    \/ key = "status" /\ v \notin Range(Statuses)

\* The place in UpdateOrder of the first key of updates whose mutation
\* fails, 0 when none does.
FailsAt(updates) ==
    LET bad == {i \in 1..Len(UpdateOrder) :
                   /\ UpdateOrder[i] \in DOMAIN updates
                   /\ Refused(UpdateOrder[i], updates[UpdateOrder[i]])}
    IN  IF bad = {} THEN 0 ELSE CHOOSE i \in bad : \A j \in bad : i <= j

\* C15: update applies the mutations of the recognized keys of updates in the
\* fixed order of UpdateOrder.  When the mutation of key K fails, the keys
\* before K stay applied to the task in the index, no key from K on is
\* applied, nothing is written to the Storage Port and the error reaches the
\* caller; when none fails, all are applied and the index is saved.
C15_OrderedPartialUpdate ==
    [][\A id \in TaskIdInputs, u \in RepoUpdateInputs \ {NullObj} :
        (last'.op = "update" /\ last'.id = id /\ last'.arg = u /\ Has(tasks, id))
        => LET t0 == TaskOf(tasks, id)
               t1 == TaskOf(tasks', id)
               K == FailsAt(u)
               Applied(i) == K = 0 \/ i < K
           IN  /\ last'.threw <=> K # 0
               /\ Len(tasks') = Len(tasks)
               /\ \A j \in 1..Len(tasks) : tasks[j].id # id => tasks'[j] = tasks[j]
               /\ \A i \in 1..Len(UpdateOrder) :
                    LET key == UpdateOrder[i]
                    IN  /\ (key \in SetterKeys /\ key \in DOMAIN u)
                            => t1[key] = IF Applied(i) THEN u[key] ELSE t0[key]
                        /\ (key \in SetterKeys /\ key \notin DOMAIN u)
                            => t1[key] = t0[key]
                        /\ (key = "addTag" /\ key \in DOMAIN u)
                            => IF Applied(i)
                               THEN Includes(t1.tags, u[key])
                               ELSE t1.tags = t0.tags
                        /\ (key = "removeTag" /\ key \in DOMAIN u /\ Applied(i))
                            => ~Includes(t1.tags, u[key])
               /\ t1.ownerId = t0.ownerId /\ t1.id = t0.id
               /\ K # 0 => /\ storage' = storage
                           /\ last'.ret = << >>
                           /\ last'.error = IF UpdateOrder[K] = "priority"
                                            THEN InvalidPriority ELSE InvalidStatus
               /\ K = 0 => /\ storage' = saveTasksToStorage(tasks')
                           /\ last'.ret = <<t1>>]_vars

\* An update of title, priority and status failed at the priority: the new
\* title is in the index, the status is not, and the Storage Port still holds
\* the old title.
C15_Witness ==
    /\ last.op = "update"
    /\ last.threw
    /\ last.error = InvalidPriority
    /\ "title" \in DOMAIN last.arg
    /\ Has(tasks, last.id) /\ Has(storage, last.id)
    /\ TaskOf(tasks, last.id).title = last.arg["title"]
    /\ TaskOf(storage, last.id).title # last.arg["title"]
    /\ TaskOf(tasks, last.id).status # last.arg["status"]

\* C16: for an id that is not in the index, findById returns null, update
\* returns null and delete returns false, none throws, and neither the index
\* nor the Storage Port changes; a second delete of an id that was just
\* deleted returns false.
C16_AbsenceIsAValue ==
    [][/\ (last'.op \in {"findById", "update", "delete"} /\ ~Has(tasks, last'.id))
            => /\ ~last'.threw
               /\ last'.ret = IF last'.op = "delete" THEN <<FALSE>> ELSE << >>
               /\ tasks' = tasks
               /\ storage' = storage
       /\ (/\ last.op = "delete" /\ last.ret = <<TRUE>>
           /\ last'.op = "delete" /\ last'.id = last.id)
            => last'.ret = <<FALSE>>]_vars

\* An id that had been created and deleted was deleted again.
C16_Witness ==
    /\ last.op = "delete"
    /\ last.ret = <<FALSE>>
    /\ last.id < TaskIdOf(nextId)
    /\ ~Has(tasks, last.id)

\* What one task has to satisfy under a filter configuration: every option
\* that is present with a truthy value.
Satisfies(t, f) ==
    /\ \A k \in {"ownerId", "assigneeId", "category", "status", "priority"} :
           (k \in DOMAIN f /\ f[k] \notin {"", Null}) => t[k] = f[k]
    /\ ("overdue" \in DOMAIN f /\ f["overdue"])
           => /\ t.dueDate # NullDate
              /\ t.dueDate < now
              /\ t.status \notin {"completed", "cancelled"}
    /\ ("dueSoon" \in DOMAIN f /\ f["dueSoon"])
           => /\ t.dueDate # NullDate
              /\ t.dueDate - now >= 0
              /\ t.dueDate - now <= 3
    /\ ("tags" \in DOMAIN f /\ f["tags"] # << >>)
           => \E i \in 1..Len(f["tags"]) : Includes(t.tags, f["tags"][i])

\* C17: filter is conjunctive.  Its result holds exactly the tasks of the
\* index that satisfy every option present with a truthy value; an option
\* that is absent or falsy, or an empty tags list, imposes nothing, and
\* filter({}) is findAll().
C17_FilterConjunctive ==
    last.op = "filter"
        => /\ last.ret = SelectSeq(tasks, LAMBDA t : Satisfies(t, last.arg))
           /\ last.arg = EmptyObj => last.ret = findAll

\* A filter of three options kept one task of the index and dropped another.
C17_Witness ==
    /\ last.op = "filter"
    /\ DOMAIN last.arg = {"ownerId", "dueSoon", "tags"}
    /\ Len(last.ret) = 1
    /\ Len(tasks) = 2
    /\ \E i \in 1..Len(tasks) :
           tasks[i].ownerId = last.arg["ownerId"] /\ ~Includes(last.ret, tasks[i])

\* The tasks getStats(userId) is about: those of the owner, or all of them.
InScope(userId) ==
    {i \in 1..Len(tasks) : userId \notin {"", Null} => tasks[i].ownerId = userId}

\* C18: the dueSoon count of getStats(userId) is the number of tasks in scope
\* whose due date is 0 to 3 days ahead, as findDueSoon(3) finds them; a task
\* whose due date is past is not counted.
C18_DueSoonCount ==
    last.op = "getStats"
        => last.ret.dueSoon =
             Cardinality({i \in InScope(last.arg["userId"]) :
                            /\ tasks[i].dueDate # NullDate
                            /\ tasks[i].dueDate - now >= 0
                            /\ tasks[i].dueDate - now <= 3})

\* C19: getStats returns byStatus, byPriority and byCategory with exactly the
\* keys of the three fixed lists, each the count of the tasks in scope that
\* have the value (zero when none has); the byStatus counts add up to total,
\* byStatus.completed is completed, and with a userId only the tasks that
\* user owns are counted.
C19_StatsZeroFilled ==
    last.op = "getStats"
        => LET st == last.ret
               scope == InScope(last.arg["userId"])
           IN  /\ DOMAIN st.byStatus =
                    {"pending", "in-progress", "blocked", "completed", "cancelled"}
               /\ DOMAIN st.byPriority = {"low", "medium", "high", "urgent"}
               /\ DOMAIN st.byCategory =
                    {"work", "personal", "study", "health", "finance", "other"}
               /\ \A k \in DOMAIN st.byStatus : st.byStatus[k] =
                    Cardinality({i \in scope : tasks[i].status = k})
               /\ \A k \in DOMAIN st.byPriority : st.byPriority[k] =
                    Cardinality({i \in scope : tasks[i].priority = k})
               /\ \A k \in DOMAIN st.byCategory : st.byCategory[k] =
                    Cardinality({i \in scope : tasks[i].category = k})
               /\ st.total = Cardinality(scope)
               /\ st.byStatus["pending"] + st.byStatus["in-progress"]
                    + st.byStatus["blocked"] + st.byStatus["completed"]
                    + st.byStatus["cancelled"] = st.total
               /\ st.byStatus["completed"] = st.completed

\* The statistics of one user were taken while the index also held a task of
\* another user; the statuses no task of the user has are there, as zero.
C19_Witness ==
    /\ last.op = "getStats"
    /\ last.arg["userId"] = "u1"
    /\ \E i \in 1..Len(tasks) : tasks[i].ownerId = "u2"
    /\ last.ret.total = 1
    /\ last.ret.byStatus["completed"] = 1
    /\ last.ret.byStatus["pending"] = 0
    /\ last.ret.byCategory["study"] = 0

\* The sort key the claim gives a task.
KeyOf(t, sortBy) ==
    CASE sortBy = "priority" ->
            (CASE t.priority = "low" -> 1
               [] t.priority = "medium" -> 2
               [] t.priority = "high" -> 3
               [] t.priority = "urgent" -> 4)
      [] sortBy = "dueDate" ->
            IF t.dueDate = NullDate THEN Today + 1000 ELSE t.dueDate
      [] sortBy = "title" -> IF t.title = "Buy milk" THEN 1 ELSE 2
      [] OTHER -> t.createdAt

\* C20: sort returns a permutation of the tasks it was given in which every
\* task precedes every task of a strictly greater key under 'asc' and of a
\* strictly smaller key under 'desc'; the priority key is low=1, medium=2,
\* high=3, urgent=4, and a task without due date sorts as the farthest future.
C20_SortOrders ==
    last.op = "sort"
        => LET r == last.ret
               sortBy == last.arg["sortBy"]
           IN  /\ Len(r) = Len(tasks)
               /\ \E f \in Orderings(Len(tasks)) :
                      r = [i \in 1..Len(tasks) |-> tasks[f[i]]]
               /\ \A i, j \in 1..Len(r) :
                      (i < j /\ KeyOf(r[i], sortBy) # KeyOf(r[j], sortBy))
                          => IF last.arg["order"] = "asc"
                             THEN KeyOf(r[i], sortBy) < KeyOf(r[j], sortBy)
                             ELSE KeyOf(r[i], sortBy) > KeyOf(r[j], sortBy)

\* A sort by priority, 'desc', moved an urgent task in front of a task of
\* lower priority that came before it in the index.
C20_Witness ==
    /\ last.op = "sort"
    /\ last.arg = [sortBy |-> "priority", order |-> "desc"]
    /\ Len(last.ret) = 2
    /\ last.ret[1].priority = "urgent"
    /\ last.ret[2].priority = "low"
    /\ tasks[1] = last.ret[2]

\* C21: after any sequence of create calls no two users of the index share a
\* username or an email.  A create with a username of the index fails with
\* the error that names the username, also when the email is taken as well;
\* one with a new username and an email of the index fails with the error
\* that names the email; and a create that fails adds no user.
C21_UniqueUsers ==
    /\ [](\A a, b \in DOMAIN users :
            (users[a].username = users[b].username \/ users[a].email = users[b].email)
                => a = b)
    /\ [][last'.op = "create"
            => LET d == last'.arg
                   sameName == \E u \in DOMAIN users : users[u].username = d.username
                   sameEmail == \E u \in DOMAIN users : users[u].email = d.email
               IN  /\ sameName => last'.threw /\ last'.error = UsernameTaken(d.username)
                   /\ (~sameName /\ sameEmail)
                        => last'.threw /\ last'.error = EmailTaken(d.email)
                   /\ last'.threw => users' = users
                   /\ (~sameName /\ ~sameEmail)
                        => /\ ~last'.threw
                           /\ Cardinality(DOMAIN users') = Cardinality(DOMAIN users) + 1
                           /\ \A u \in DOMAIN users : users'[u] = users[u]
                           /\ \E u \in DOMAIN users' \ DOMAIN users :
                                /\ users'[u].username = d.username
                                /\ users'[u].email = d.email]_vars

\* A user data of which both the username and the email are taken was
\* refused, with the error that names the username.
C21_Witness ==
    /\ last.op = "create"
    /\ last.threw
    /\ last.error = UsernameTaken(last.arg.username)
    /\ \E u \in DOMAIN users :
           users[u].email = last.arg.email /\ users[u].username # last.arg.username

\* C22: when hydration fails while a TaskRepository is constructed (load
\* throws, or fromJSON throws for some record of the stored list, the first
\* or a later one), the constructor does not throw and the repository starts
\* with an empty index: findAll() returns no task.
C22_StartEmpty ==
    (last.op \in {"construct", "findAll"} /\ last.failed)
        => /\ ~last.threw
           /\ tasks = << >>
           /\ last.ret = << >>

\* the place of the task of the given id in a sequence of tasks
PlaceOf(r, id) == CHOOSE k \in 1..Len(r) : r[k].id = id

\* C23: sort is stable: for every input sequence, sort key and order, two
\* tasks whose sort keys are equal keep in the result the relative order they
\* had in the input.
C23_SortStable ==
    last.op = "sort"
        => \A i, j \in 1..Len(tasks) :
               (i < j /\ KeyOf(tasks[i], last.arg["sortBy"])
                            = KeyOf(tasks[j], last.arg["sortBy"]))
                   => PlaceOf(last.ret, tasks[i].id) < PlaceOf(last.ret, tasks[j].id)

\* C24: every TaskController operation that returns success:false (not logged
\* in, empty title, empty search query, task not found, access denied, unknown
\* assignee, or a domain error raised during the repository call) leaves the
\* task index and the Storage Port exactly as they were before the call.
C24_FailureChangesNothing ==
    [][(/\ last'.op \in TaskOps
        /\ ~last'.threw
        /\ last'.resp.success = FALSE)
           => (tasks' = tasks /\ storage' = storage)]_vars

\* C25: in every reachable state currentUser is null or a user of the
\* UserRepository; setCurrentUser with the id of no existing user throws
\* 'User tidak ditemukan' and leaves currentUser null, also when another user
\* was logged in before the call; the previous session is ended, and the task
\* operation that comes next returns the login error.
C25_FailedLoginEndsSession ==
    /\ [](currentUser = Null \/ currentUser \in DOMAIN users)
    /\ [][(last'.op = "setCurrentUser" /\ last'.arg["userId"] \notin DOMAIN users)
              => /\ last'.threw
                 /\ last'.error = UserNotFoundError
                 /\ currentUser' = Null]_vars
    /\ [][(last.op = "setCurrentUser" /\ last.threw /\ last'.op \in TaskOps)
              => (~last'.threw /\ last'.resp = Fail(LoginError))]_vars

\* the message with which each operation denies access
DeniedError(op) ==
    CASE op = "getTask" -> AccessError
      [] op = "updateTask" -> UpdateOwnerError
      [] op = "deleteTask" -> DeleteOwnerError

\* whether the current user passes the operation's access test on the task
Authorized(op, t) ==
    \/ t.ownerId = currentUser
    \/ op = "getTask" /\ t.assigneeId = currentUser

\* C26: getTask, updateTask and deleteTask test in the fixed order login,
\* task existence, authorization and, for updateTask, assignee existence:
\* whatever the later tests would say, no current user gives the login error,
\* an id that is not in the index 'Task tidak ditemukan', a task the caller
\* may not touch the operation's access-denied message, and only then an
\* unknown assignee its own message.
C26_CheckOrder ==
    [][last'.op \in {"getTask", "updateTask", "deleteTask"}
         => LET op == last'.op
                task == findById(last'.id)
                verdict ==
                    IF currentUser = Null THEN LoginError
                    ELSE IF task = << >> THEN NotFoundError
                    ELSE IF ~Authorized(op, task[1]) THEN DeniedError(op)
                    ELSE IF /\ op = "updateTask"
                            /\ Truthy(Field(last'.arg, "assigneeId"))
                            /\ last'.arg["assigneeId"] \notin DOMAIN users
                    THEN AssigneeError
                    ELSE Undefined
            IN  /\ verdict # Undefined
                    => (~last'.threw /\ last'.resp = Fail(verdict))
                /\ (verdict = Undefined /\ ~last'.threw)
                    => last'.resp.error \notin
                          {LoginError, NotFoundError, DeniedError(op), AssigneeError}]_vars

\* A logged-in user who is neither owner nor assignee of the task asked to
\* give it to a user that does not exist, and was denied access.
C26_Witness ==
    /\ last.op = "updateTask"
    /\ last.arg = [assigneeId |-> GhostId]
    /\ currentUser # Null
    /\ Has(tasks, last.id)
    /\ TaskOf(tasks, last.id).ownerId # currentUser
    /\ TaskOf(tasks, last.id).assigneeId # currentUser
    /\ last.resp = Fail(UpdateOwnerError)

====
